---- MODULE Spec2Model ----
(***************************************************************************)
(* Model of manufacturing_pipeline.py: the monthly manufacturing pipeline  *)
(* (text cleaning, business-rule validation, product-master mapping,       *)
(* monthly aggregation, KPI engineering, risk scoring).                    *)
(*                                                                         *)
(* A table (pandas DataFrame) is a sequence of records, one per row.       *)
(* A text cell is a record [isna, s]: isna marks a missing cell (NaN), s   *)
(* is the string as a sequence of one-character strings.                   *)
(* A numeric cell is a record [k, n, d]: k = "fin" is the rational n/d     *)
(* (d > 0, lowest terms), "null" is NaN / missing, "pinf" and "ninf" are   *)
(* the float infinities, "text" is a raw cell that is not a number.        *)
(***************************************************************************)
EXTENDS Integers, Sequences, FiniteSets, TLC

VARIABLES pc, df, cols, result, result2,
          production_df, quality_df, product_master,
          prod_monthly, qual_monthly, final_df

vars == <<pc, df, cols, result, result2, production_df, quality_df,
          product_master, prod_monthly, qual_monthly, final_df>>

Range(s) == {s[i] : i \in 1..Len(s)}

\* All sequences of length at most n over the set S.
RECURSIVE SeqsUpTo(_, _)
SeqsUpTo(S, n) ==
    IF n = 0 THEN {<<>>}
    ELSE LET shorter == SeqsUpTo(S, n - 1)
         IN  shorter \cup {Append(t, x) : t \in {u \in shorter : Len(u) = n - 1}, x \in S}

(***************************************************************************)
(* Text cells                                                              *)
(***************************************************************************)
NullText == [isna |-> TRUE, s |-> <<>>]
Str(s) == [isna |-> FALSE, s |-> s]

LowerCase == <<"a","b","c","d","e","f","g","h","i","j","k","l","m",
               "n","o","p","q","r","s","t","u","v","w","x","y","z">>
UpperCase == <<"A","B","C","D","E","F","G","H","I","J","K","L","M",
               "N","O","P","Q","R","S","T","U","V","W","X","Y","Z">>

IsSpace(c) == c \in {" ", "\t", "\n"}
IsLower(c) == c \in Range(LowerCase)

\* str.upper() on one character
UpperChar(c) ==
    IF IsLower(c)
    THEN UpperCase[CHOOSE i \in 1..Len(LowerCase) : LowerCase[i] = c]
    ELSE c

\* Series.astype(str): a missing cell becomes the text "nan"
AsTypeStr(x) == IF x.isna THEN <<"n", "a", "n">> ELSE x.s

RECURSIVE LStrip(_)
LStrip(s) == IF s # <<>> /\ IsSpace(Head(s)) THEN LStrip(Tail(s)) ELSE s

RECURSIVE RStrip(_)
RStrip(s) ==
    IF s # <<>> /\ IsSpace(s[Len(s)]) THEN RStrip(SubSeq(s, 1, Len(s) - 1)) ELSE s

\* .str.strip()
StrStrip(s) == RStrip(LStrip(s))

\* .str.upper()
StrUpper(s) == [i \in 1..Len(s) |-> UpperChar(s[i])]

NotSpace(c) == ~IsSpace(c)

\* .str.replace(r"\s+", "", regex=True)
StrRemoveWs(s) == SelectSeq(s, NotSpace)

\* Mutant: whitespace runs dropped without the upper-casing step.
CleanCellNoUpper(x) == Str(StrRemoveWs(StrStrip(AsTypeStr(x))))

\* The chain applied to one cell of a cleaned column (lines 39-45).
CleanCell(x) == Str(StrRemoveWs(StrUpper(StrStrip(AsTypeStr(x)))))

\* df[c] = ... for one column c
CleanColumn(t, c) == [i \in 1..Len(t) |-> [t[i] EXCEPT ![c] = CleanCell(t[i][c])]]

\* for c in cols: from the i-th column name on
RECURSIVE CleanFrom(_, _, _)
CleanFrom(t, cs, i) ==
    IF i > Len(cs) THEN t ELSE CleanFrom(CleanColumn(t, cs[i]), cs, i + 1)

\* clean_text(df, cols): works on a copy and returns it
clean_text(t, cs) == CleanFrom(t, cs, 1)

(***************************************************************************)
(* Numeric cells: float64 arithmetic on exact rationals with NaN and the   *)
(* two infinities (values stay far from the float range and precision).    *)
(***************************************************************************)
Null == [k |-> "null", n |-> 0, d |-> 1]
PInf == [k |-> "pinf", n |-> 0, d |-> 1]
NInf == [k |-> "ninf", n |-> 0, d |-> 1]
NotANumber == [k |-> "text", n |-> 0, d |-> 1]

Abs(i) == IF i < 0 THEN -i ELSE i

RECURSIVE GCD(_, _)
GCD(a, b) == IF b = 0 THEN a ELSE GCD(b, a % b)

\* The rational n/d (d > 0) in lowest terms.
Rat(n, d) ==
    LET g == GCD(Abs(n), d)
    IN  [k |-> "fin", n |-> n \div g, d |-> d \div g]

Num(i) == Rat(i, 1)
Zero == Num(0)

\* Series.isna() / notna()
IsNa(x) == x.k = "null"
NotNa(x) == ~IsNa(x)
IsFinite(x) == x.k = "fin"

\* pd.to_numeric(errors="coerce"): what is not a number becomes NaN
to_numeric(x) == IF x.k = "text" THEN Null ELSE x

\* Series.fillna(0)
FillNa0(x) == IF IsNa(x) THEN Zero ELSE x

\* Float comparisons: any comparison with NaN is False.
Lt(x, y) ==
    /\ NotNa(x) /\ NotNa(y)
    /\ CASE x.k = "ninf" -> y.k # "ninf"
         [] x.k = "pinf" -> FALSE
         [] y.k = "ninf" -> FALSE
         [] y.k = "pinf" -> TRUE
         [] OTHER -> x.n * y.d < y.n * x.d
Le(x, y) == NotNa(x) /\ NotNa(y) /\ (x = y \/ Lt(x, y))
Gt(x, y) == Lt(y, x)
Ge(x, y) == Le(y, x)

Sign(x) ==
    CASE x.k = "pinf" -> 1
      [] x.k = "ninf" -> -1
      [] OTHER -> IF x.n > 0 THEN 1 ELSE IF x.n < 0 THEN -1 ELSE 0

Neg(x) ==
    CASE x.k = "null" -> Null
      [] x.k = "pinf" -> NInf
      [] x.k = "ninf" -> PInf
      [] OTHER -> Rat(-x.n, x.d)

Add(x, y) ==
    CASE IsNa(x) \/ IsNa(y) -> Null
      [] IsFinite(x) /\ IsFinite(y) -> Rat(x.n * y.d + y.n * x.d, x.d * y.d)
      [] IsFinite(x) -> y
      [] IsFinite(y) -> x
      [] OTHER -> IF x = y THEN x ELSE Null

Sub(x, y) == Add(x, Neg(y))

Mul(x, y) ==
    CASE IsNa(x) \/ IsNa(y) -> Null
      [] IsFinite(x) /\ IsFinite(y) -> Rat(x.n * y.n, x.d * y.d)
      [] OTHER -> LET sg == Sign(x) * Sign(y)
                  IN  IF sg = 0 THEN Null ELSE IF sg > 0 THEN PInf ELSE NInf

\* Series / Series: x/0 is +-inf, 0/0 is NaN, nothing raises
Div(x, y) ==
    CASE IsNa(x) \/ IsNa(y) -> Null
      [] IsFinite(x) /\ IsFinite(y) ->
            IF y.n = 0
            THEN (IF x.n = 0 THEN Null ELSE IF x.n > 0 THEN PInf ELSE NInf)
            ELSE Rat(Sign(y) * x.n * y.d, x.d * Abs(y.n))
      [] IsFinite(x) -> Zero
      [] IsFinite(y) -> IF (Sign(x) > 0) = (Sign(y) >= 0) THEN PInf ELSE NInf
      [] OTHER -> Null

\* Series.clip(lo, hi): NaN stays NaN
Clip(x, lo, hi) ==
    IF IsNa(x) THEN Null ELSE IF Lt(x, lo) THEN lo ELSE IF Gt(x, hi) THEN hi ELSE x

\* groupby(...).sum(): NaN cells are skipped, an all-NaN group sums to 0
RECURSIVE SumCells(_)
SumCells(xs) ==
    IF xs = <<>> THEN Zero
    ELSE IF IsNa(Head(xs)) THEN SumCells(Tail(xs))
    ELSE Add(Head(xs), SumCells(Tail(xs)))

(***************************************************************************)
(* Task 3 - business rule validation                                       *)
(***************************************************************************)
\* Mutant: the planned_units.notna() and >= tests replaced by "not below".
ProductionRuleNoPlanCheck(r) ==
    /\ Gt(r.units_produced, Zero)
    /\ ~Lt(r.planned_units, r.units_produced)

\* Mutant: the units_produced > 0 test left out.
ProductionRuleNoPositive(r) ==
    /\ NotNa(r.planned_units)
    /\ Ge(r.planned_units, r.units_produced)

\* The boolean mask of validate_production, for one row (lines 68-70).
ProductionRule(r) ==
    /\ Gt(r.units_produced, Zero)
    /\ NotNa(r.planned_units)
    /\ Ge(r.planned_units, r.units_produced)

validate_production(t) == SelectSeq(t, ProductionRule)

\* Mutant: the defect_units >= 0 test left out.
QualityRuleNoLowerBound(r) ==
    /\ NotNa(r.units_inspected)
    /\ Gt(r.units_inspected, Zero)
    /\ NotNa(r.defect_units)
    /\ Le(r.defect_units, r.units_inspected)

\* The boolean mask of validate_quality, for one row (lines 76-80).
QualityRule(r) ==
    /\ NotNa(r.units_inspected)
    /\ Gt(r.units_inspected, Zero)
    /\ NotNa(r.defect_units)
    /\ Ge(r.defect_units, Zero)
    /\ Le(r.defect_units, r.units_inspected)

validate_quality(t) == SelectSeq(t, QualityRule)

(***************************************************************************)
(* Task 2 - production line normalisation                                  *)
(***************************************************************************)
LINE01 == <<"L","I","N","E","0","1">>
LINE02 == <<"L","I","N","E","0","2">>
LINE03 == <<"L","I","N","E","0","3">>

\* LINE_MAP.get(x, x) on a string (lines 49-53, 58)
LineMapGet(s) ==
    CASE s \in {<<"L","1">>, <<"L","I","N","E","-","1">>, <<"L","I","N","E","1">>} -> LINE01
      [] s \in {<<"L","2">>, <<"L","I","N","E","-","2">>, <<"L","I","N","E","2">>} -> LINE02
      [] s \in {<<"L","3">>, <<"L","I","N","E","-","3">>, <<"L","I","N","E","3">>} -> LINE03
      [] OTHER -> s

normalize_production_lines(t) ==
    [i \in 1..Len(t) |->
        [t[i] EXCEPT !.production_line =
            IF @.isna THEN @ ELSE Str(LineMapGet(@.s))]]

(***************************************************************************)
(* Task 4 - product master mapping                                         *)
(***************************************************************************)
\* A record without the column c (DataFrame.drop(columns=[c])).
DropColumn(r, c) == [f \in (DOMAIN r) \ {c} |-> r[f]]

MasterNaN ==
    [product_code_raw |-> NullText, product_code_std |-> NullText,
     product_family |-> NullText]

\* The rows of a how="left" merge that one left row gives: one per matching
\* right row, in the right table's order, or one with NaN right columns.
RECURSIVE MatchesFrom(_, _, _)
MatchesFrom(r, pm, j) ==
    IF j > Len(pm) THEN <<>>
    ELSE (IF pm[j].product_code_raw = r.product_code THEN <<r @@ pm[j]>> ELSE <<>>)
         \o MatchesFrom(r, pm, j + 1)

LeftRows(r, pm) ==
    LET m == MatchesFrom(r, pm, 1)
    IN  IF m = <<>> THEN <<r @@ MasterNaN>> ELSE m

\* df.merge(product_master, left_on="product_code",
\*          right_on="product_code_raw", how="left")
RECURSIVE MergeMaster(_, _, _)
MergeMaster(t, pm, i) ==
    IF i > Len(t) THEN <<>> ELSE LeftRows(t[i], pm) \o MergeMaster(t, pm, i + 1)

HasStd(r) == ~r.product_code_std.isna

\* Mutant: the filter on product_code_std left out (a plain left join).
map_product_master_nofilter(t, master) ==
    LET d  == clean_text(t, <<"product_code">>)
        pm == clean_text(master,
                  <<"product_code_raw", "product_code_std", "product_family">>)
        merged == MergeMaster(d, pm, 1)
    IN  [i \in 1..Len(merged) |-> DropColumn(merged[i], "product_code_raw")]

map_product_master(t, master) ==
    LET d  == clean_text(t, <<"product_code">>)
        pm == clean_text(master,
                  <<"product_code_raw", "product_code_std", "product_family">>)
        merged == SelectSeq(MergeMaster(d, pm, 1), HasStd)
    IN  [i \in 1..Len(merged) |-> DropColumn(merged[i], "product_code_raw")]

(***************************************************************************)
(* Task 5 - month alignment                                                *)
(* A raw date cell [isna, y, m, d] stands for the text "y-m-d"; after      *)
(* to_datetime the cell is a Timestamp (nat = FALSE) or NaT.               *)
(***************************************************************************)
NaT == [nat |-> TRUE, y |-> 0, m |-> 0, d |-> 0]

IsLeap(y) == (y % 4 = 0 /\ y % 100 # 0) \/ y % 400 = 0

DaysIn(y, m) ==
    CASE m \in {4, 6, 9, 11} -> 30
      [] m = 2 -> IF IsLeap(y) THEN 29 ELSE 28
      [] OTHER -> 31

\* pd.to_datetime(errors="coerce"): what is not a calendar date becomes NaT
to_datetime(x) ==
    IF ~x.isna /\ x.y \in 1..9999 /\ x.m \in 1..12 /\ x.d \in 1..DaysIn(x.y, x.m)
    THEN [nat |-> FALSE, y |-> x.y, m |-> x.m, d |-> x.d]
    ELSE NaT

Digit(i) == <<"0","1","2","3","4","5","6","7","8","9">>[i + 1]

\* .dt.to_period("M").astype(str): "YYYY-MM"; the missing period NaT is
\* rendered as the text "NaT", not as a missing cell.
PeriodStr(ts) ==
    IF ts.nat THEN Str(<<"N", "a", "T">>)
    ELSE Str(<<Digit(ts.y \div 1000), Digit((ts.y \div 100) % 10),
               Digit((ts.y \div 10) % 10), Digit(ts.y % 10), "-",
               Digit(ts.m \div 10), Digit(ts.m % 10)>>)

add_month(t, date_col) ==
    [i \in 1..Len(t) |->
        LET ts == to_datetime(t[i][date_col])
        IN  [month |-> PeriodStr(ts)] @@ [t[i] EXCEPT ![date_col] = ts]]

(***************************************************************************)
(* Task 5 - monthly aggregation                                            *)
(* groupby(keys, as_index=False): rows with a missing key cell are left    *)
(* out (dropna), the groups come out sorted by key.                        *)
(***************************************************************************)
CodePoints ==
    <<"\t", "\n", " ", "-", "0","1","2","3","4","5","6","7","8","9">>
    \o UpperCase \o LowerCase

Ord(c) == CHOOSE i \in 1..Len(CodePoints) : CodePoints[i] = c

\* Python's < on strings
RECURSIVE StrLt(_, _)
StrLt(s, t) ==
    IF t = <<>> THEN FALSE
    ELSE IF s = <<>> THEN TRUE
    ELSE IF Head(s) = Head(t) THEN StrLt(Tail(s), Tail(t))
    ELSE Ord(Head(s)) < Ord(Head(t))

\* < on key tuples of strings
RECURSIVE KeyLt(_, _)
KeyLt(a, b) ==
    IF a = <<>> \/ b = <<>> THEN FALSE
    ELSE IF Head(a) = Head(b) THEN KeyLt(Tail(a), Tail(b))
    ELSE StrLt(Head(a), Head(b))

RECURSIVE SortKeys(_)
SortKeys(S) ==
    IF S = {} THEN <<>>
    ELSE LET lo == CHOOSE x \in S : \A y \in S : ~KeyLt(y, x)
         IN  <<lo>> \o SortKeys(S \ {lo})

HasKey(r, keys) == \A i \in 1..Len(keys) : ~r[keys[i]].isna
KeyOf(r, keys) == [i \in 1..Len(keys) |-> r[keys[i]].s]

\* The rows of t that have the key k, in the order of t.
RECURSIVE GroupRows(_, _, _)
GroupRows(t, keys, k) ==
    IF t = <<>> THEN <<>>
    ELSE (IF HasKey(Head(t), keys) /\ KeyOf(Head(t), keys) = k
          THEN <<Head(t)>> ELSE <<>>) \o GroupRows(Tail(t), keys, k)

\* The group keys of t, sorted.
GroupKeys(t, keys) ==
    SortKeys({KeyOf(t[i], keys) : i \in {j \in 1..Len(t) : HasKey(t[j], keys)}})

Column(t, c) == [i \in 1..Len(t) |-> t[i][c]]

ProductionKeys ==
    <<"plant_id", "production_line", "product_code_std", "product_family", "month">>
QualityKeys == <<"plant_id", "product_code_std", "product_family", "month">>

aggregate_production(t) ==
    LET ks == GroupKeys(t, ProductionKeys)
    IN  [g \in 1..Len(ks) |->
            LET rows == GroupRows(t, ProductionKeys, ks[g])
            IN  [plant_id |-> Str(ks[g][1]), production_line |-> Str(ks[g][2]),
                 product_code_std |-> Str(ks[g][3]), product_family |-> Str(ks[g][4]),
                 month |-> Str(ks[g][5]),
                 units_produced |-> SumCells(Column(rows, "units_produced")),
                 planned_units |-> SumCells(Column(rows, "planned_units")),
                 downtime_minutes |-> SumCells(Column(rows, "downtime_minutes"))]]

\* Mutant: one output row per input row (no grouping).
aggregate_quality_per_row(t) ==
    LET rows == SelectSeq(t, LAMBDA r : HasKey(r, QualityKeys))
    IN  [g \in 1..Len(rows) |->
            [plant_id |-> rows[g].plant_id,
             product_code_std |-> rows[g].product_code_std,
             product_family |-> rows[g].product_family,
             month |-> rows[g].month,
             units_inspected |-> rows[g].units_inspected,
             defect_units |-> rows[g].defect_units]]

aggregate_quality(t) ==
    LET ks == GroupKeys(t, QualityKeys)
    IN  [g \in 1..Len(ks) |->
            LET rows == GroupRows(t, QualityKeys, ks[g])
            IN  [plant_id |-> Str(ks[g][1]), product_code_std |-> Str(ks[g][2]),
                 product_family |-> Str(ks[g][3]), month |-> Str(ks[g][4]),
                 units_inspected |-> SumCells(Column(rows, "units_inspected")),
                 defect_units |-> SumCells(Column(rows, "defect_units"))]]

(***************************************************************************)
(* The merge of the two monthly tables (lines 249-253)                     *)
(***************************************************************************)
SameJoinKey(p, q) == \A i \in 1..Len(QualityKeys) : p[QualityKeys[i]] = q[QualityKeys[i]]

QualityCells(q) == [units_inspected |-> q.units_inspected, defect_units |-> q.defect_units]
QualityNaN == [units_inspected |-> Null, defect_units |-> Null]

RECURSIVE QualityMatches(_, _, _)
QualityMatches(p, qm, j) ==
    IF j > Len(qm) THEN <<>>
    ELSE (IF SameJoinKey(p, qm[j]) THEN <<p @@ QualityCells(qm[j])>> ELSE <<>>)
         \o QualityMatches(p, qm, j + 1)

\* prod_monthly.merge(qual_monthly, on=[...], how="left")
RECURSIVE MergeMonthly(_, _, _)
MergeMonthly(pmo, qm, i) ==
    IF i > Len(pmo) THEN <<>>
    ELSE (LET m == QualityMatches(pmo[i], qm, 1)
          IN  IF m = <<>> THEN <<pmo[i] @@ QualityNaN>> ELSE m)
         \o MergeMonthly(pmo, qm, i + 1)

(***************************************************************************)
(* Task 6 - KPI engineering                                                *)
(***************************************************************************)
RankKeys == <<"plant_id", "month">>

\* The non-missing production_efficiency values of the rows of t grouped
\* with row i by (plant_id, month).
GroupEfficiencies(t, i) ==
    {t[j].production_efficiency :
        j \in {h \in 1..Len(t) :
                 /\ HasKey(t[h], RankKeys)
                 /\ KeyOf(t[h], RankKeys) = KeyOf(t[i], RankKeys)
                 /\ NotNa(t[h].production_efficiency)}}

\* Mutant: method="min" in place of method="dense" (rows, not values, counted).
MinRank(t, i) ==
    IF ~HasKey(t[i], RankKeys) \/ IsNa(t[i].production_efficiency) THEN Null
    ELSE Num(1 + Cardinality({j \in 1..Len(t) :
                 /\ HasKey(t[j], RankKeys)
                 /\ KeyOf(t[j], RankKeys) = KeyOf(t[i], RankKeys)
                 /\ Gt(t[j].production_efficiency, t[i].production_efficiency)}))

\* groupby(["plant_id", "month"])["production_efficiency"]
\*     .rank(ascending=False, method="dense") for row i: one more than the
\* number of distinct larger values in the group; NaN is not ranked.
DenseRank(t, i) ==
    IF ~HasKey(t[i], RankKeys) \/ IsNa(t[i].production_efficiency) THEN Null
    ELSE Num(1 + Cardinality({v \in GroupEfficiencies(t, i) :
                                 Gt(v, t[i].production_efficiency)}))

calculate_kpis(t) ==
    LET kpi == [i \in 1..Len(t) |->
                  [production_efficiency |-> Div(t[i].units_produced, t[i].planned_units),
                   defect_rate |-> Div(t[i].defect_units, t[i].units_inspected),
                   downtime_per_unit |-> Div(t[i].downtime_minutes, t[i].units_produced)]
                  @@ t[i]]
    IN  [i \in 1..Len(kpi) |-> [performance_rank |-> DenseRank(kpi, i)] @@ kpi[i]]

(***************************************************************************)
(* Task 7 - risk scoring                                                   *)
(***************************************************************************)
NaLevel == "NaN"

\* Mutant: the weights of efficiency and defect rate exchanged.
RiskScoreSwapped(r) ==
    LET efficiency  == FillNa0(r.production_efficiency)
        defect_rate == FillNa0(r.defect_rate)
        downtime    == FillNa0(r.downtime_per_unit)
    IN  Clip(Add(Add(Mul(Sub(Num(1), efficiency), Num(30)),
                     Mul(defect_rate, Num(50))),
                 Mul(downtime, Num(20))),
             Num(0), Num(100))

\* Lines 174-182 for one row.
RiskScore(r) ==
    LET efficiency  == FillNa0(r.production_efficiency)
        defect_rate == FillNa0(r.defect_rate)
        downtime    == FillNa0(r.downtime_per_unit)
    IN  Clip(Add(Add(Mul(Sub(Num(1), efficiency), Num(50)),
                     Mul(defect_rate, Num(30))),
                 Mul(downtime, Num(20))),
             Num(0), Num(100))

\* pd.cut(score, bins=[0, 30, 60, 100], labels=["LOW", "MEDIUM", "HIGH"]):
\* right-closed bins (0,30], (30,60], (60,100]; outside them, or NaN, the
\* label is missing.
RiskLevel(score) ==
    CASE Gt(score, Num(0))  /\ Le(score, Num(30))  -> "LOW"
      [] Gt(score, Num(30)) /\ Le(score, Num(60))  -> "MEDIUM"
      [] Gt(score, Num(60)) /\ Le(score, Num(100)) -> "HIGH"
      [] OTHER -> NaLevel

risk_scoring(t) ==
    [i \in 1..Len(t) |->
        LET score == RiskScore(t[i])
        IN  [risk_score |-> score, risk_level |-> RiskLevel(score)] @@ t[i]]

(***************************************************************************)
(* Tables of n rows drawn from a set of rows                               *)
(***************************************************************************)
TablesUpTo(Rows, n) == SeqsUpTo(Rows, n)

NoTable == <<>>

(***************************************************************************)
(* clean_text on its own: any table, any list of columns, applied twice    *)
(***************************************************************************)
MaxLen == 3
MaxCleanRows == 1

CleanChars == {"a", "B", " "}
CleanTexts == {NullText} \cup {Str(s) : s \in SeqsUpTo(CleanChars, MaxLen)}
CleanRows == [a : CleanTexts, b : {NullText, Str(<<"\t", "b">>)}]
CleanColumnLists == {<<"a">>, <<"b">>, <<"a", "b">>}

\* The caller's table after clean_text(t, cs) returned: line 37 rebinds df
\* to a copy, so the argument is never written.
ArgumentAfterClean(t, cs) == t

InitClean ==
    /\ pc = "clean_text"
    /\ df \in TablesUpTo(CleanRows, MaxCleanRows)
    /\ cols \in CleanColumnLists
    /\ result = NoTable /\ result2 = NoTable
    /\ production_df = NoTable /\ quality_df = NoTable /\ product_master = NoTable
    /\ prod_monthly = NoTable /\ qual_monthly = NoTable /\ final_df = NoTable

Pipeline == <<production_df, quality_df, product_master, prod_monthly,
              qual_monthly, final_df>>

\* result = clean_text(df, cols)
CleanText ==
    /\ pc = "clean_text"
    /\ result' = clean_text(df, cols)
    /\ df' = ArgumentAfterClean(df, cols)
    /\ pc' = "clean_text_again"
    /\ UNCHANGED <<cols, result2, Pipeline>>

\* result2 = clean_text(result, cols)
CleanTextAgain ==
    /\ pc = "clean_text_again"
    /\ result2' = clean_text(result, cols)
    /\ result' = ArgumentAfterClean(result, cols)
    /\ pc' = "cleaned"
    /\ UNCHANGED <<df, cols, Pipeline>>

NextClean == CleanText \/ CleanTextAgain

SpecClean == InitClean /\ [][NextClean]_vars

CellIsClean(x) ==
    /\ ~x.isna
    /\ \A i \in 1..Len(x.s) : ~IsSpace(x.s[i]) /\ ~IsLower(x.s[i])

CleanedOnce ==
    pc \in {"clean_text_again", "cleaned"} =>
        /\ Len(result) = Len(df)
        /\ \A i \in 1..Len(result) : \A j \in 1..Len(cols) :
              /\ CellIsClean(result[i][cols[j]])
              /\ df[i][cols[j]].isna => result[i][cols[j]] = Str(<<"N", "A", "N">>)

\* C7: clean_text is idempotent (cleaning the cleaned table changes
\* nothing); after one application every cell of the named columns is text
\* without whitespace and without lower-case letters, a missing cell reads
\* "NAN"; and a table handed to clean_text is never changed by it.
C7_CleanTextIdempotent ==
    /\ [](CleanedOnce /\ (pc = "cleaned" => result2 = result))
    /\ [][pc = "clean_text" => df' = df]_vars
    /\ [][pc = "clean_text_again" => result' = result]_vars

\* A cell with inner whitespace and a lower-case letter, and a missing
\* cell, cleaned twice.
C7_Witness ==
    /\ pc = "cleaned"
    /\ cols = <<"a", "b">>
    /\ Len(df) = 1
    /\ df[1].a = Str(<<"a", " ", "B">>)
    /\ df[1].b = NullText
    /\ result2[1].a = Str(<<"A", "B">>)
    /\ result2[1].b = Str(<<"N", "A", "N">>)

(***************************************************************************)
(* The two validators on their own: any table of numeric cells             *)
(***************************************************************************)
MaxUnits == 2
MaxValRows == 2

ValCells == {Null} \cup {Num(i) : i \in -1..MaxUnits}
ProductionValRows == [units_produced : ValCells, planned_units : ValCells]
QualityValRows == [units_inspected : ValCells, defect_units : ValCells]

InitValidate ==
    /\ \/ pc = "validate_production" /\ df \in TablesUpTo(ProductionValRows, MaxValRows)
       \/ pc = "validate_quality" /\ df \in TablesUpTo(QualityValRows, MaxValRows)
    /\ cols = <<>>
    /\ result = NoTable /\ result2 = NoTable
    /\ production_df = NoTable /\ quality_df = NoTable /\ product_master = NoTable
    /\ prod_monthly = NoTable /\ qual_monthly = NoTable /\ final_df = NoTable

\* result = validate_production(df)
ValidateProduction ==
    /\ pc = "validate_production"
    /\ result' = validate_production(df)
    /\ pc' = "validated_production"
    /\ UNCHANGED <<df, cols, result2, Pipeline>>

\* result = validate_quality(df)
ValidateQuality ==
    /\ pc = "validate_quality"
    /\ result' = validate_quality(df)
    /\ pc' = "validated_quality"
    /\ UNCHANGED <<df, cols, result2, Pipeline>>

NextValidate == ValidateProduction \/ ValidateQuality

SpecValidate == InitValidate /\ [][NextValidate]_vars

\* A present number (the cells here are whole numbers or missing).
Present(x) == x.k = "fin"

ProductionRowOk(r) ==
    /\ Present(r.units_produced) /\ r.units_produced.n > 0
    /\ Present(r.planned_units)
    /\ r.planned_units.n >= r.units_produced.n

\* C4: the output of validate_production is exactly the input rows, in
\* order, with units_produced > 0, planned_units present and planned_units
\* >= units_produced; rows with a missing units_produced or planned_units
\* are dropped, and the call always returns.
C4_ValidateProduction ==
    /\ pc = "validate_production" => ENABLED ValidateProduction
    /\ pc = "validated_production" =>
          /\ \A i \in 1..Len(result) : ProductionRowOk(result[i])
          /\ result = SelectSeq(df, ProductionRowOk)

\* One row kept, and a row with a missing planned_units dropped.
C4_Witness ==
    /\ pc = "validated_production"
    /\ Len(df) = 2 /\ Len(result) = 1
    /\ \E i \in 1..Len(df) : IsNa(df[i].planned_units) /\ Present(df[i].units_produced)
                             /\ df[i].units_produced.n > 0

QualityRowOk(r) ==
    /\ Present(r.units_inspected) /\ r.units_inspected.n > 0
    /\ Present(r.defect_units)
    /\ 0 <= r.defect_units.n /\ r.defect_units.n <= r.units_inspected.n

\* C5: the output of validate_quality is exactly the input rows, in order,
\* with units_inspected present and > 0 and defect_units present with
\* 0 <= defect_units <= units_inspected; every other row is dropped.
C5_ValidateQuality ==
    pc = "validated_quality" =>
        /\ \A i \in 1..Len(result) : QualityRowOk(result[i])
        /\ result = SelectSeq(df, QualityRowOk)

\* One row kept, and a row with a negative defect_units dropped.
C5_Witness ==
    /\ pc = "validated_quality"
    /\ Len(df) = 2 /\ Len(result) = 1
    /\ \E i \in 1..Len(df) : Present(df[i].defect_units) /\ df[i].defect_units.n < 0
                             /\ Present(df[i].units_inspected)
                             /\ df[i].units_inspected.n > 0

(***************************************************************************)
(* map_product_master on its own: any operational table, any master table  *)
(***************************************************************************)
MaxMapRows == 2
MaxMasterRows == 2

\* Raw product codes: spellings of "A" and of "B", a missing cell, and the
\* text "nan".
RawCodes ==
    {Str(<<"a">>), Str(<<" ", "A">>), Str(<<"b", " ">>), NullText, Str(<<"n", "a", "n">>)}

\* An operational row: its product_code and, as its other columns, the
\* position it has in the input table.
OperationalTables ==
    UNION {[1..n -> RawCodes] : n \in 0..MaxMapRows}

WithRow(codes) == [i \in 1..Len(codes) |-> [product_code |-> codes[i], row |-> i]]

MasterRows ==
    [product_code_raw : {Str(<<"A", " ">>), Str(<<"a">>), NullText},
     product_code_std : {Str(<<"s", "1">>), NullText},
     product_family : {Str(<<"f">>)}]

InitMap ==
    /\ pc = "map_product_master"
    /\ \E codes \in OperationalTables : df = WithRow(codes)
    /\ product_master \in TablesUpTo(MasterRows, MaxMasterRows)
    /\ cols = <<>>
    /\ result = NoTable /\ result2 = NoTable
    /\ production_df = NoTable /\ quality_df = NoTable
    /\ prod_monthly = NoTable /\ qual_monthly = NoTable /\ final_df = NoTable

\* result = map_product_master(df, product_master)
MapProductMaster ==
    /\ pc = "map_product_master"
    /\ result' = map_product_master(df, product_master)
    /\ pc' = "mapped"
    /\ UNCHANGED <<df, cols, result2, production_df, quality_df, product_master,
                   prod_monthly, qual_monthly, final_df>>

NextMap == MapProductMaster

SpecMap == InitMap /\ [][NextMap]_vars

\* A product code as the matching sees it: upper case, no whitespace, the
\* missing cell read as "NAN".
NormalizedCode(x) ==
    LET s == IF x.isna THEN <<"N", "A", "N">> ELSE x.s
    IN  SelectSeq([i \in 1..Len(s) |-> UpperChar(s[i])], NotSpace)

InMaster(r) ==
    \E j \in 1..Len(product_master) :
        NormalizedCode(product_master[j].product_code_raw) = NormalizedCode(r.product_code)

\* C3: every row of the output of map_product_master comes from an
\* operational row whose normalized product_code equals the normalized
\* product_code_raw of some master row, and every such operational row is
\* in the output; case and whitespace do not matter for the match.
C3_MapProductMaster ==
    pc = "mapped" =>
        /\ \A k \in 1..Len(result) : InMaster(df[result[k].row])
        /\ \A i \in 1..Len(df) :
              InMaster(df[i]) => \E k \in 1..Len(result) : result[k].row = i

\* A code spelled differently from the master's is kept, a code the master
\* does not have is dropped.
C3_Witness ==
    /\ pc = "mapped"
    /\ Len(df) = 2 /\ Len(result) = 1
    /\ df[1].product_code = Str(<<"b", " ">>)
    /\ df[2].product_code = Str(<<"a">>)
    /\ product_master[1].product_code_raw = Str(<<"A", " ">>)
    /\ result[1].row = 2

(***************************************************************************)
(* calculate_kpis on its own: any monthly table                            *)
(***************************************************************************)
MaxKpiRows == 3

Jan == <<"2","0","2","4","-","0","1">>
Feb == <<"2","0","2","4","-","0","2">>

\* (plant_id, month) of a row: two plants, one of them with two months.
KpiGroups == {<<Str(<<"P">>), Str(Jan)>>, <<Str(<<"P">>), Str(Feb)>>, <<Str(<<"Q">>), Str(Jan)>>}

\* (units_produced, planned_units): efficiencies NaN, inf, 0, 1/2, 1 and 1 again.
KpiCounts == {<<0, 0>>, <<1, 0>>, <<0, 1>>, <<1, 2>>, <<1, 1>>, <<2, 2>>}

KpiRow(g, c) ==
    [plant_id |-> g[1], month |-> g[2],
     units_produced |-> Num(c[1]), planned_units |-> Num(c[2]),
     downtime_minutes |-> Num(1), units_inspected |-> Null, defect_units |-> Null]

KpiRows == {KpiRow(g, c) : g \in KpiGroups, c \in KpiCounts}

InitKpi ==
    /\ pc = "calculate_kpis"
    /\ df \in TablesUpTo(KpiRows, MaxKpiRows)
    /\ cols = <<>>
    /\ result = NoTable /\ result2 = NoTable
    /\ production_df = NoTable /\ quality_df = NoTable /\ product_master = NoTable
    /\ prod_monthly = NoTable /\ qual_monthly = NoTable /\ final_df = NoTable

\* result = calculate_kpis(df)
CalculateKpis ==
    /\ pc = "calculate_kpis"
    /\ result' = calculate_kpis(df)
    /\ pc' = "kpis"
    /\ UNCHANGED <<df, cols, result2, Pipeline>>

NextKpi == CalculateKpis

SpecKpi == InitKpi /\ [][NextKpi]_vars

SameRankGroup(t, i, j) == t[i].plant_id = t[j].plant_id /\ t[i].month = t[j].month

\* The rows of t grouped with row i that have an efficiency to rank.
RankedWith(t, i) ==
    {j \in 1..Len(t) : SameRankGroup(t, i, j) /\ NotNa(t[j].production_efficiency)}

DenseIn(t, i) ==
    LET G == RankedWith(t, i)
        k == Cardinality({t[j].production_efficiency : j \in G})
    IN  /\ {t[j].performance_rank : j \in G} = {Num(r) : r \in 1..k}
        /\ \A a \in G : \A b \in G :
              /\ (t[a].performance_rank = t[b].performance_rank)
                    <=> (t[a].production_efficiency = t[b].production_efficiency)
              /\ Lt(t[a].production_efficiency, t[b].production_efficiency)
                    => Gt(t[a].performance_rank, t[b].performance_rank)
        /\ \A a \in G :
              (\A b \in G : Le(t[b].production_efficiency, t[a].production_efficiency))
                 => t[a].performance_rank = Num(1)

\* C6: within each (plant_id, month) group performance_rank is the dense
\* descending rank of production_efficiency: the highest efficiency has
\* rank 1, equal ranks go with equal efficiencies, a lower efficiency has a
\* larger rank, and the ranks of a group are exactly 1..k for its k distinct
\* efficiencies, whatever the other groups hold; a row without an
\* efficiency (NaN) has no rank.
C6_DenseRank ==
    pc = "kpis" =>
        /\ Len(result) = Len(df)
        /\ \A i \in 1..Len(result) :
              /\ DenseIn(result, i)
              /\ IsNa(result[i].performance_rank) <=> IsNa(result[i].production_efficiency)

\* A group with a tie at the top and a lower value: ranks 1, 1, 2.
C6_Witness ==
    /\ pc = "kpis"
    /\ Len(result) = 3
    /\ \A i \in 1..3 : result[i].plant_id = Str(<<"P">>) /\ result[i].month = Str(Jan)
    /\ result[1].production_efficiency = Num(1) /\ result[1].performance_rank = Num(1)
    /\ result[2].production_efficiency = Rat(1, 2) /\ result[2].performance_rank = Num(2)
    /\ result[3].production_efficiency = Num(1) /\ result[3].performance_rank = Num(1)
    /\ df[1].units_produced # df[3].units_produced

(***************************************************************************)
(* risk_scoring on its own: any KPI values                                 *)
(***************************************************************************)
MaxRiskRows == 1

Efficiencies == {Null, PInf, Num(0), Rat(1, 2), Num(1), Num(2)}
DefectRates == {Null, PInf, Num(0), Rat(1, 2), Num(1)}
Downtimes == {Null, PInf, Num(0), Rat(1, 10), Rat(1, 4), Rat(1, 2), Num(1), Num(3)}

RiskRows ==
    [production_efficiency : Efficiencies, defect_rate : DefectRates,
     downtime_per_unit : Downtimes]

InitRisk ==
    /\ pc = "risk_scoring"
    /\ df \in TablesUpTo(RiskRows, MaxRiskRows)
    /\ cols = <<>>
    /\ result = NoTable /\ result2 = NoTable
    /\ production_df = NoTable /\ quality_df = NoTable /\ product_master = NoTable
    /\ prod_monthly = NoTable /\ qual_monthly = NoTable /\ final_df = NoTable

\* result = risk_scoring(df)
RiskScoring ==
    /\ pc = "risk_scoring"
    /\ result' = risk_scoring(df)
    /\ pc' = "scored"
    /\ UNCHANGED <<df, cols, result2, Pipeline>>

NextRisk == RiskScoring

SpecRisk == InitRisk /\ [][NextRisk]_vars

Levels == {"LOW", "MEDIUM", "HIGH"}

\* The level the specification gives a score: [0,30], (30,60], (60,100].
SpecLevel(score) ==
    IF Le(score, Num(30)) THEN "LOW" ELSE IF Le(score, Num(60)) THEN "MEDIUM" ELSE "HIGH"

\* C1: every row risk_scoring returns has 0 <= risk_score <= 100 and a
\* risk_level among LOW, MEDIUM, HIGH, never missing: LOW on [0,30], MEDIUM
\* on (30,60], HIGH on (60,100]; a score of exactly 0 is LOW.
C1_RiskLevelTotal ==
    pc = "scored" =>
        \A i \in 1..Len(result) :
            /\ Le(Num(0), result[i].risk_score) /\ Le(result[i].risk_score, Num(100))
            /\ result[i].risk_level \in Levels
            /\ result[i].risk_level = SpecLevel(result[i].risk_score)

OrZero(x) == IF x.k = "null" THEN Num(0) ELSE x

\* The score of the formula, on the KPI values of row r of the input.
FormulaScore(r) ==
    LET raw == Add(Add(Mul(Sub(Num(1), OrZero(r.production_efficiency)), Num(50)),
                       Mul(OrZero(r.defect_rate), Num(30))),
                   Mul(OrZero(r.downtime_per_unit), Num(20)))
    IN  IF raw.k = "null" THEN Null
        ELSE IF Lt(raw, Num(0)) THEN Num(0)
        ELSE IF Lt(Num(100), raw) THEN Num(100) ELSE raw

KpiColumns == {"production_efficiency", "defect_rate", "downtime_per_unit"}

\* C8: risk_score is (1 - efficiency)*50 + defect_rate*30 +
\* downtime_per_unit*20 clipped to [0,100], a missing KPI counting as 0 in
\* the formula only: the KPI columns come out as they went in.  Efficiency
\* 1, no defect rate, downtime per unit 0.1 scores 2 (LOW); efficiency 0.5,
\* defect rate 0.5, downtime per unit 0 scores 40 (MEDIUM).
C8_RiskScoreFormula ==
    pc = "scored" =>
        /\ Len(result) = Len(df)
        /\ \A i \in 1..Len(result) :
              /\ \A c \in KpiColumns : result[i][c] = df[i][c]
              /\ result[i].risk_score = FormulaScore(df[i])
              /\ (/\ df[i].production_efficiency = Num(1)
                  /\ df[i].defect_rate = Null
                  /\ df[i].downtime_per_unit = Rat(1, 10))
                    => result[i].risk_score = Num(2) /\ result[i].risk_level = "LOW"
              /\ (/\ df[i].production_efficiency = Rat(1, 2)
                  /\ df[i].defect_rate = Rat(1, 2)
                  /\ df[i].downtime_per_unit = Num(0))
                    => result[i].risk_score = Num(40) /\ result[i].risk_level = "MEDIUM"

\* The production aggregate without a quality match of the first example.
C8_Witness ==
    /\ pc = "scored"
    /\ Len(df) = 1
    /\ df[1].production_efficiency = Num(1)
    /\ df[1].defect_rate = Null
    /\ df[1].downtime_per_unit = Rat(1, 10)
    /\ result[1].defect_rate = Null
    /\ result[1].risk_score = Num(2)
    /\ result[1].risk_level = "LOW"

(***************************************************************************)
(* main(): the pipeline, one action per stage it announces.  The state     *)
(* after construction is the three tables as read from the CSV files.      *)
(* The two data quality reports are computed from the raw tables and only  *)
(* written out; no later stage reads them.                                 *)
(***************************************************************************)
MaxProdRows == 2
MaxQualRows == 2

Date(y, m, d) == [isna |-> FALSE, y |-> y, m |-> m, d |-> d]

\* A date in January 2024, and a text that is no calendar date.
RawProductionDates == {Date(2024, 1, 15), Date(2024, 2, 30)}
RawInspectionDates == {Date(2024, 1, 20), Date(2024, 13, 1)}

\* (units_produced, planned_units, downtime_minutes) as read
RawProductionCounts ==
    {<<Num(1), Num(1), Null>>, <<Num(1), Num(2), Num(1)>>, <<Num(0), Num(1), Num(1)>>,
     <<Num(2), Num(1), Num(1)>>, <<Num(1), NotANumber, Num(1)>>}

\* (units_inspected, defect_units) as read
RawQualityCounts == {<<Num(2), Num(1)>>, <<Num(1), Num(2)>>}

RawProductionRow(line, code, dt, c) ==
    [plant_id |-> Str(<<" ", "p", "1">>), production_line |-> Str(line),
     product_code |-> Str(code), production_date |-> dt,
     units_produced |-> c[1], planned_units |-> c[2], downtime_minutes |-> c[3]]

\* Rows of line "l1" and product "a " with every date and count above, and
\* valid rows of another line, of a product the master does not have, and
\* of another month.
RawProductionRows ==
    {RawProductionRow(<<"l", "1">>, <<"a", " ">>, dt, c) :
        dt \in RawProductionDates, c \in RawProductionCounts}
    \cup {RawProductionRow(<<"L", "I", "N", "E", "-", "2">>, <<"a", " ">>,
                           Date(2024, 1, 15), <<Num(1), Num(2), Num(1)>>),
          RawProductionRow(<<"l", "1">>, <<"x">>,
                           Date(2024, 1, 15), <<Num(1), Num(2), Num(1)>>),
          RawProductionRow(<<"l", "1">>, <<"a", " ">>,
                           Date(2024, 2, 29), <<Num(1), Num(2), Num(1)>>)}

RawQualityRows ==
    {[plant_id |-> Str(<<"P", "1">>), product_code |-> Str(<<"A">>),
      inspection_date |-> dt, units_inspected |-> c[1], defect_units |-> c[2]] :
        dt \in RawInspectionDates, c \in RawQualityCounts}

RawProductMaster ==
    << [product_code_raw |-> Str(<<"a">>), product_code_std |-> Str(<<"S", "-", "A">>),
        product_family |-> Str(<<"f", "1">>)] >>

Init ==
    /\ pc = "loaded"
    /\ production_df \in TablesUpTo(RawProductionRows, MaxProdRows)
    /\ quality_df \in TablesUpTo(RawQualityRows, MaxQualRows)
    /\ product_master = RawProductMaster
    /\ prod_monthly = NoTable /\ qual_monthly = NoTable /\ final_df = NoTable
    /\ df = NoTable /\ cols = <<>> /\ result = NoTable /\ result2 = NoTable

Harness == <<df, cols, result, result2>>

\* Lines 224-228 on one production row.
ProductionToNumeric(r) ==
    [r EXCEPT !.units_produced = to_numeric(@),
              !.planned_units = to_numeric(@),
              !.downtime_minutes = FillNa0(to_numeric(@))]

\* Lines 230-231 on one quality row.
QualityToNumeric(r) ==
    [r EXCEPT !.units_inspected = to_numeric(@), !.defect_units = to_numeric(@)]

\* "Cleaning and standardising data..." (lines 212-231)
CleanAndStandardise ==
    /\ pc = "loaded"
    /\ production_df' =
          LET t == normalize_production_lines(
                       clean_text(production_df,
                                  <<"plant_id", "production_line", "product_code">>))
          IN  [i \in 1..Len(t) |-> ProductionToNumeric(t[i])]
    /\ quality_df' =
          LET t == clean_text(quality_df, <<"plant_id", "product_code">>)
          IN  [i \in 1..Len(t) |-> QualityToNumeric(t[i])]
    /\ pc' = "standardised"
    /\ UNCHANGED <<product_master, prod_monthly, qual_monthly, final_df, Harness>>

\* "Applying business rules..." (lines 233-235)
ApplyBusinessRules ==
    /\ pc = "standardised"
    /\ production_df' = validate_production(production_df)
    /\ quality_df' = validate_quality(quality_df)
    /\ pc' = "validated"
    /\ UNCHANGED <<product_master, prod_monthly, qual_monthly, final_df, Harness>>

\* "Mapping product master..." (lines 237-239)
MapMaster ==
    /\ pc = "validated"
    /\ production_df' = map_product_master(production_df, product_master)
    /\ quality_df' = map_product_master(quality_df, product_master)
    /\ pc' = "master_mapped"
    /\ UNCHANGED <<product_master, prod_monthly, qual_monthly, final_df, Harness>>

\* "Aggregating monthly data..." (lines 241-246)
AggregateMonthly ==
    /\ pc = "master_mapped"
    /\ production_df' = add_month(production_df, "production_date")
    /\ quality_df' = add_month(quality_df, "inspection_date")
    /\ prod_monthly' = aggregate_production(production_df')
    /\ qual_monthly' = aggregate_quality(quality_df')
    /\ pc' = "aggregated"
    /\ UNCHANGED <<product_master, final_df, Harness>>

\* "Merging datasets..." (lines 248-253)
MergeDatasets ==
    /\ pc = "aggregated"
    /\ final_df' = MergeMonthly(prod_monthly, qual_monthly, 1)
    /\ pc' = "merged"
    /\ UNCHANGED <<production_df, quality_df, product_master, prod_monthly,
                   qual_monthly, Harness>>

\* "Calculating KPIs and risk..." (lines 255-257)
CalculateKpisAndRisk ==
    /\ pc = "merged"
    /\ final_df' = risk_scoring(calculate_kpis(final_df))
    /\ pc' = "done"
    /\ UNCHANGED <<production_df, quality_df, product_master, prod_monthly,
                   qual_monthly, Harness>>

Next ==
    \/ CleanAndStandardise
    \/ ApplyBusinessRules
    \/ MapMaster
    \/ AggregateMonthly
    \/ MergeDatasets
    \/ CalculateKpisAndRisk

Spec == Init /\ [][Next]_vars

Digits == {"0","1","2","3","4","5","6","7","8","9"}

\* A text cell of the form YYYY-MM.
IsYearMonth(x) ==
    /\ ~x.isna
    /\ Len(x.s) = 7
    /\ x.s[5] = "-"
    /\ \A i \in {1, 2, 3, 4, 6, 7} : x.s[i] \in Digits

Aggregated == pc \in {"aggregated", "merged", "done"}

\* Some row of t (a table add_month returned) with an unparseable date has
\* the grouping key of the aggregate row g.
BuiltFromUnparsed(g, t, date_col, keys) ==
    \E i \in 1..Len(t) :
        /\ t[i][date_col].nat
        /\ \A k \in 1..Len(keys) : t[i][keys[k]] = g[keys[k]]

\* C2: a row whose date does not parse gets a missing month from add_month
\* and is left out of the aggregation: no row of the production or quality
\* aggregate, nor of the final dataset, is built from such a row, and every
\* month key has the form YYYY-MM.
C2_UnparsedDateExcluded ==
    Aggregated =>
        /\ \A i \in 1..Len(production_df) :
              production_df[i].production_date.nat => production_df[i].month.isna
        /\ \A i \in 1..Len(quality_df) :
              quality_df[i].inspection_date.nat => quality_df[i].month.isna
        /\ \A g \in 1..Len(prod_monthly) :
              /\ IsYearMonth(prod_monthly[g].month)
              /\ ~BuiltFromUnparsed(prod_monthly[g], production_df,
                                    "production_date", ProductionKeys)
        /\ \A g \in 1..Len(qual_monthly) :
              /\ IsYearMonth(qual_monthly[g].month)
              /\ ~BuiltFromUnparsed(qual_monthly[g], quality_df,
                                    "inspection_date", QualityKeys)
        /\ \A i \in 1..Len(final_df) : IsYearMonth(final_df[i].month)

Merged == pc \in {"merged", "done"}

QualityMatchesOf(p) == {j \in 1..Len(qual_monthly) : SameJoinKey(p, qual_monthly[j])}

\* C9: the final dataset has exactly one row for each row of the monthly
\* production aggregate, in the same order and with the same production
\* columns: the quality aggregate has at most one row per join key, the
\* left join neither drops nor repeats a production row, and the KPI and
\* risk stages keep the rows; a production row without a quality match has
\* missing units_inspected, defect_units and defect_rate.
C9_OneRowPerProductionAggregate ==
    /\ Aggregated =>
          \A i \in 1..Len(qual_monthly) : \A j \in 1..Len(qual_monthly) :
              SameJoinKey(qual_monthly[i], qual_monthly[j]) => i = j
    /\ Merged =>
          /\ Len(final_df) = Len(prod_monthly)
          /\ \A i \in 1..Len(final_df) :
                /\ \A c \in DOMAIN prod_monthly[i] : final_df[i][c] = prod_monthly[i][c]
                /\ \A j \in QualityMatchesOf(prod_monthly[i]) :
                      /\ final_df[i].units_inspected = qual_monthly[j].units_inspected
                      /\ final_df[i].defect_units = qual_monthly[j].defect_units
                /\ QualityMatchesOf(prod_monthly[i]) = {} =>
                      /\ IsNa(final_df[i].units_inspected)
                      /\ IsNa(final_df[i].defect_units)
                      /\ pc = "done" => IsNa(final_df[i].defect_rate)

\* Two production aggregates, the first matched by a quality aggregate that
\* sums two inspection rows, the second without a match.
C9_Witness ==
    /\ pc = "done"
    /\ Len(final_df) = 2 /\ Len(qual_monthly) = 1
    /\ final_df[1].units_inspected = Num(4)
    /\ final_df[1].defect_rate = Rat(1, 2)
    /\ IsNa(final_df[2].units_inspected)
    /\ IsNa(final_df[2].defect_rate)

====
